---- MODULE Spec2Model ----
(***************************************************************************)
(* Worker discovery, liveness and transport of claude-mem                  *)
(* (src/shared/worker-utils.ts and the hook handlers that use it).         *)
(*                                                                         *)
(* The state machines of this module share its variables:                  *)
(*   Spec         - the connection cache: getWorkerPort, getWorkerHost,    *)
(*                  clearPortCache, the clock, the environment variable    *)
(*                  and the settings file;                                 *)
(*   SpecEndpoint - getAvailableWorkerPort of one process: the endpoint    *)
(*                  resolution followed by the probes of                   *)
(*                  findAvailablePort, over the same cache;                *)
(*   SpecAlloc    - findAvailablePort run by concurrently starting         *)
(*                  workers;                                               *)
(*   SpecFetch    - fetchWithTimeout racing a network call against a       *)
(*                  timer;                                                 *)
(*   SpecEnsure   - ensureWorkerRunning;                                   *)
(*   SpecHook     - the lifecycle hook handlers;                           *)
(*   SpecFormat   - formatNumberCompact.                                   *)
(* Strings that the code parses are sequences of one-character strings.    *)
(***************************************************************************)
EXTENDS Integers, Sequences, FiniteSets, TLC

\* ------------------------------------------------------------------------
\* Program constants and bounds
\* ------------------------------------------------------------------------

CACHE_TTL == 60000

\* Number of clock advances explored by the connection-cache machine.
MaxTicks == 3

\* Largest maxAttempts handed to findAvailablePort.
MaxAttempts == 3

\* Number of workers that start concurrently.
NumWorkers == 2

\* Number of fetchWithTimeout calls, and the last instant of their clock.
NumCalls == 2
MaxFetchNow == 2

\* JavaScript values: null, NaN, a number, a string.
NULL == [t |-> "null", v |-> 0]
NaN == [t |-> "nan", v |-> 0]
Num(n) == [t |-> "num", v |-> n]

\* a + b and a > b on numbers: NaN when an operand is NaN, and no
\* comparison with NaN is true.
Plus(a, b) == IF a.t = "num" /\ b.t = "num" THEN Num(a.v + b.v) ELSE NaN
Greater(a, b) == a.t = "num" /\ b.t = "num" /\ a.v > b.v

\* ------------------------------------------------------------------------
\* parseInt(s, 10)
\* ------------------------------------------------------------------------

Digits == {"0", "1", "2", "3", "4", "5", "6", "7", "8", "9"}

DigitVal(c) ==
    CASE c = "0" -> 0 [] c = "1" -> 1 [] c = "2" -> 2 [] c = "3" -> 3
      [] c = "4" -> 4 [] c = "5" -> 5 [] c = "6" -> 6 [] c = "7" -> 7
      [] c = "8" -> 8 [] c = "9" -> 9

\* The characters parseInt skips before the number (StrWhiteSpaceChar):
\* the white space characters and the line terminators. A text is a
\* sequence of characters, each a one-character string. A character that
\* is not printable ASCII may also be written as the name of its code
\* point, "<U+2028>" for U+2028, and one that a string of this module
\* cannot hold is written so only.
\* WhiteSpace: tab, vertical tab, form feed, byte order mark, and the space
\* separators: space, no-break space, U+1680, U+2000 to U+200A, U+202F,
\* U+205F and U+3000.
WhiteSpace ==
    {"\t", "", "\f", "﻿", " ", " ", " ",
     "<U+000B>", "<U+FEFF>", "<U+00A0>", "<U+1680>",
     "<U+2000>", "<U+2001>", "<U+2002>", "<U+2003>",
     "<U+2004>", "<U+2005>", "<U+2006>", "<U+2007>",
     "<U+2008>", "<U+2009>", "<U+200A>",
     "<U+202F>", "<U+205F>", "<U+3000>"}

\* LineTerminator: line feed, carriage return, line separator (U+2028) and
\* paragraph separator (U+2029).
LineTerminator == {"\n", "\r", "<U+2028>", "<U+2029>"}

StrWhiteSpaceChar == WhiteSpace \cup LineTerminator

RECURSIVE StripLeadingWhitespace(_)
StripLeadingWhitespace(s) ==
    IF s # <<>> /\ Head(s) \in StrWhiteSpaceChar
    THEN StripLeadingWhitespace(Tail(s)) ELSE s

\* The longest prefix of decimal digits of s.
RECURSIVE DigitPrefix(_)
DigitPrefix(s) ==
    IF s # <<>> /\ Head(s) \in Digits
    THEN <<Head(s)>> \o DigitPrefix(Tail(s)) ELSE <<>>

\* The decimal value of a sequence of digits, continuing from acc.
RECURSIVE DigitsValue(_, _)
DigitsValue(ds, acc) ==
    IF ds = <<>> THEN acc
    ELSE DigitsValue(Tail(ds), acc * 10 + DigitVal(Head(ds)))

\* parseInt(s, 10): leading whitespace skipped, an optional sign, then the
\* longest run of digits; NaN when that run is empty.
ParseInt(s) ==
    LET t == StripLeadingWhitespace(s)
        neg == t # <<>> /\ Head(t) = "-"
        u == IF t # <<>> /\ Head(t) \in {"-", "+"} THEN Tail(t) ELSE t
        ds == DigitPrefix(u)
    IN IF ds = <<>> THEN NaN
       ELSE IF neg THEN Num(0 - DigitsValue(ds, 0)) ELSE Num(DigitsValue(ds, 0))

\* Number.parseInt(s) with no radix: as parseInt(s, 10), except that after
\* the sign a "0x" or "0X" prefix selects radix 16.
HexDigits == Digits \cup {"a", "b", "c", "d", "e", "f",
                          "A", "B", "C", "D", "E", "F"}

HexVal(c) ==
    CASE c \in Digits -> DigitVal(c)
      [] c \in {"a", "A"} -> 10 [] c \in {"b", "B"} -> 11
      [] c \in {"c", "C"} -> 12 [] c \in {"d", "D"} -> 13
      [] c \in {"e", "E"} -> 14 [] c \in {"f", "F"} -> 15

RECURSIVE HexPrefix(_)
HexPrefix(s) ==
    IF s # <<>> /\ Head(s) \in HexDigits
    THEN <<Head(s)>> \o HexPrefix(Tail(s)) ELSE <<>>

RECURSIVE HexValue(_, _)
HexValue(ds, acc) ==
    IF ds = <<>> THEN acc
    ELSE HexValue(Tail(ds), acc * 16 + HexVal(Head(ds)))

ParseIntNoRadix(s) ==
    LET t == StripLeadingWhitespace(s)
        neg == t # <<>> /\ Head(t) = "-"
        u == IF t # <<>> /\ Head(t) \in {"-", "+"} THEN Tail(t) ELSE t
        hex == Len(u) >= 2 /\ u[1] = "0" /\ u[2] \in {"x", "X"}
        ds == IF hex THEN HexPrefix(Tail(Tail(u))) ELSE DigitPrefix(u)
        n == IF hex THEN HexValue(ds, 0) ELSE DigitsValue(ds, 0)
    IN IF ds = <<>> THEN NaN
       ELSE IF neg THEN Num(0 - n) ELSE Num(n)

\* ------------------------------------------------------------------------
\* Inputs of the connection-cache machine
\* ------------------------------------------------------------------------

\* Values of process.env.CLAUDE_MEM_WORKER_PORT: unset, or the text it
\* holds (empty, digits, digits followed by a letter, a letter, digits
\* after a tab).
Unset == [set |-> FALSE, text |-> <<>>]
EnvText(s) == [set |-> TRUE, text |-> s]
EnvTexts == {<<>>, <<"9">>, <<"9", "x">>, <<"x">>, <<"\t", "9">>}
EnvValues == {Unset} \cup {EnvText(s) : s \in EnvTexts}

\* Values of CLAUDE_MEM_WORKER_PORT and CLAUDE_MEM_WORKER_HOST in settings.json.
FilePorts == {<<"7">>, <<"8">>, <<"x">>}
\* A host is a JavaScript string; cachedHost is a string or null, and the
\* string "null" is not null.
Str(s) == [t |-> "str", v |-> s]
NoHost == [t |-> "null", v |-> ""]
FileHosts == {Str("127.0.0.1"), Str("localhost")}

\* Advances of Date.now() between two operations.
TickSteps == {1, CACHE_TTL - 1}

TicksUsed(t) == (t \div (CACHE_TTL - 1)) + (t % (CACHE_TTL - 1))

VARIABLES
    \* --- connection cache (worker-utils.ts) ---
    cachedPort,     \* module variable cachedPort: NULL, a number or NaN
    cachedHost,     \* module variable cachedHost: NoHost (null) or a host
    cacheTime,      \* module variable cacheTime
    now,            \* Date.now()
    env,            \* process.env.CLAUDE_MEM_WORKER_PORT
    file,           \* settings.json: [ok, port, host]
    last,           \* outcome of the call made by the step just taken
    prev,           \* the latest getWorkerPort call made without override
    hostSeen,       \* host resolved by getWorkerHost since the last clear
    cleared,        \* which getters have not run since clearPortCache
    \* --- port allocator ---
    occupied,       \* ports that are bound at the TCP level
    worker,         \* per starting worker: its findAvailablePort activation
    \* --- fetchWithTimeout ---
    call,           \* per call: promise, timer, network operation
    \* --- liveness reconciler and hook handlers ---
    ensure,         \* the ensureWorkerRunning activation
    hook,           \* the lifecycle hook invocation
    \* --- format.ts ---
    fmt             \* a formatNumberCompact call: argument and result

cacheVars == <<cachedPort, cachedHost, cacheTime, now, env, file, last, prev,
               hostSeen, cleared>>
allocVars == <<occupied, worker>>
fetchVars == <<call>>
handlerVars == <<ensure, hook, fmt>>
vars == <<cachedPort, cachedHost, cacheTime, now, env, file, last, prev,
          hostSeen, cleared, occupied, worker, call, ensure, hook, fmt>>

\* ------------------------------------------------------------------------
\* Connection cache
\* ------------------------------------------------------------------------

NoCall == [op |-> "none"]
NoPrev == [valid |-> FALSE, at |-> 0, read |-> 0, kind |-> "none"]
NoSeen == [host |-> NoHost, at |-> 0]
NotCleared == [port |-> FALSE, host |-> FALSE, wasPort |-> NULL,
               wasHost |-> NoHost]

\* SettingsDefaultsManager.loadFromFile: the settings object, or a
\* ConfigurationError when the file is absent or unparsable.
loadFromFile(f) ==
    IF f.ok THEN [threw |-> FALSE, CLAUDE_MEM_WORKER_PORT |-> f.port,
                  CLAUDE_MEM_WORKER_HOST |-> f.host]
    ELSE [threw |-> TRUE]

\* The environment override of getWorkerPort: NULL when the variable is
\* falsy or parses to NaN, else the parsed port.
envOverride(e) ==
    IF e.set /\ e.text # <<>>
    THEN LET envPort == ParseInt(e.text) IN
         IF envPort # NaN THEN envPort ELSE NULL
    ELSE NULL

\* The cache test of getWorkerPort.
cacheValid_Inclusive(cp, ct, t) == cp # NULL /\ (t - ct) <= CACHE_TTL

cacheValid_NoNullCheck(cp, ct, t) == (t - ct) < CACHE_TTL

cacheValid(cp, ct, t) == cp # NULL /\ (t - ct) < CACHE_TTL

\* getWorkerPort() on cache state (cp, ct) at time t: the outcome and the
\* cache state it leaves.
getWorkerPort_CacheFirst(e, f, cp, ct, t) ==
    IF cacheValid(cp, ct, t)
    THEN [kind |-> "return", value |-> cp, src |-> "cache",
          read |-> 0, cachedPort |-> cp, cacheTime |-> ct]
    ELSE IF envOverride(e) # NULL
    THEN [kind |-> "return", value |-> envOverride(e), src |-> "env",
          read |-> 0, cachedPort |-> cp, cacheTime |-> ct]
    ELSE LET settings == loadFromFile(f) IN
         IF settings.threw
         THEN [kind |-> "throw", value |-> NULL, src |-> "file",
               read |-> 1, cachedPort |-> cp, cacheTime |-> ct]
         ELSE LET p == ParseInt(settings.CLAUDE_MEM_WORKER_PORT) IN
              [kind |-> "return", value |-> p, src |-> "file",
               read |-> 1, cachedPort |-> p, cacheTime |-> t]

getWorkerPort_NoStamp(e, f, cp, ct, t) ==
    IF envOverride(e) # NULL
    THEN [kind |-> "return", value |-> envOverride(e), src |-> "env",
          read |-> 0, cachedPort |-> cp, cacheTime |-> ct]
    ELSE IF cacheValid(cp, ct, t)
    THEN [kind |-> "return", value |-> cp, src |-> "cache",
          read |-> 0, cachedPort |-> cp, cacheTime |-> ct]
    ELSE LET settings == loadFromFile(f) IN
         IF settings.threw
         THEN [kind |-> "throw", value |-> NULL, src |-> "file",
               read |-> 1, cachedPort |-> cp, cacheTime |-> ct]
         ELSE LET p == ParseInt(settings.CLAUDE_MEM_WORKER_PORT) IN
              [kind |-> "return", value |-> p, src |-> "file",
               read |-> 1, cachedPort |-> p, cacheTime |-> ct]

getWorkerPort_StampFirst(e, f, cp, ct, t) ==
    IF envOverride(e) # NULL
    THEN [kind |-> "return", value |-> envOverride(e), src |-> "env",
          read |-> 0, cachedPort |-> cp, cacheTime |-> ct]
    ELSE IF cacheValid(cp, ct, t)
    THEN [kind |-> "return", value |-> cp, src |-> "cache",
          read |-> 0, cachedPort |-> cp, cacheTime |-> ct]
    ELSE LET settings == loadFromFile(f) IN
         IF settings.threw
         THEN [kind |-> "throw", value |-> NULL, src |-> "file",
               read |-> 1, cachedPort |-> cp, cacheTime |-> t]
         ELSE LET p == ParseInt(settings.CLAUDE_MEM_WORKER_PORT) IN
              [kind |-> "return", value |-> p, src |-> "file",
               read |-> 1, cachedPort |-> p, cacheTime |-> t]

getWorkerPort(e, f, cp, ct, t) ==
    IF envOverride(e) # NULL
    THEN [kind |-> "return", value |-> envOverride(e), src |-> "env",
          read |-> 0, cachedPort |-> cp, cacheTime |-> ct]
    ELSE IF cacheValid(cp, ct, t)
    THEN [kind |-> "return", value |-> cp, src |-> "cache",
          read |-> 0, cachedPort |-> cp, cacheTime |-> ct]
    ELSE LET settings == loadFromFile(f) IN
         IF settings.threw
         THEN [kind |-> "throw", value |-> NULL, src |-> "file",
               read |-> 1, cachedPort |-> cp, cacheTime |-> ct]
         ELSE LET p == ParseInt(settings.CLAUDE_MEM_WORKER_PORT) IN
              [kind |-> "return", value |-> p, src |-> "file",
               read |-> 1, cachedPort |-> p, cacheTime |-> t]

\* getWorkerHost() on cache state ch.
getWorkerHost_WithTTL(f, ch) ==
    IF ch # NoHost /\ (now - cacheTime) < CACHE_TTL
    THEN [kind |-> "return", value |-> ch, src |-> "cache", read |-> 0,
          cachedHost |-> ch]
    ELSE LET settings == loadFromFile(f) IN
         IF settings.threw
         THEN [kind |-> "throw", value |-> NoHost, src |-> "file", read |-> 1,
               cachedHost |-> ch]
         ELSE [kind |-> "return", value |-> settings.CLAUDE_MEM_WORKER_HOST,
               src |-> "file", read |-> 1,
               cachedHost |-> settings.CLAUDE_MEM_WORKER_HOST]

getWorkerHost(f, ch) ==
    IF ch # NoHost
    THEN [kind |-> "return", value |-> ch, src |-> "cache", read |-> 0,
          cachedHost |-> ch]
    ELSE LET settings == loadFromFile(f) IN
         IF settings.threw
         THEN [kind |-> "throw", value |-> NoHost, src |-> "file", read |-> 1,
               cachedHost |-> ch]
         ELSE [kind |-> "return", value |-> settings.CLAUDE_MEM_WORKER_HOST,
               src |-> "file", read |-> 1,
               cachedHost |-> settings.CLAUDE_MEM_WORKER_HOST]

\* clearPortCache() on cache state (cp, ch).
clearPortCache_PortOnly(cp, ch) == [cachedPort |-> NULL, cachedHost |-> ch]

clearPortCache(cp, ch) == [cachedPort |-> NULL, cachedHost |-> NoHost]

\* History kept for the latest getWorkerPort call made without override.
\* pairReads is the number of settings reads of this call and the previous
\* one, when the two are less than CACHE_TTL apart with no clearPortCache
\* and no settings change in between; -1 when there is no such pair.
pairReads(r, t) ==
    IF r.src # "env" /\ prev.valid /\ (t - prev.at) < CACHE_TTL
    THEN prev.read + r.read ELSE 0 - 1

nextPrev(r, t) ==
    IF r.src = "env" THEN prev
    ELSE [valid |-> TRUE, at |-> t, read |-> r.read, kind |-> r.kind]

GetWorkerPort ==
    LET r == getWorkerPort(env, file, cachedPort, cacheTime, now) IN
    /\ cachedPort' = r.cachedPort
    /\ cacheTime' = r.cacheTime
    /\ last' = [op |-> "getWorkerPort", kind |-> r.kind, value |-> r.value,
                src |-> r.src, read |-> r.read,
                had |-> cachedPort,
                hadHost |-> cachedHost,
                age |-> now - cacheTime,
                afterClear |-> cleared.port,
                dropped |-> cleared.wasPort,
                pairReads |-> pairReads(r, now),
                firstKind |-> prev.kind]
    /\ prev' = nextPrev(r, now)
    /\ cleared' = IF r.src = "env" THEN cleared
                  ELSE [cleared EXCEPT !.port = FALSE, !.wasPort = NULL]
    /\ UNCHANGED <<cachedHost, now, env, file, hostSeen>>
    /\ UNCHANGED <<allocVars, fetchVars, handlerVars>>

GetWorkerHost ==
    LET r == getWorkerHost(file, cachedHost) IN
    /\ cachedHost' = r.cachedHost
    /\ last' = [op |-> "getWorkerHost", kind |-> r.kind, value |-> r.value,
                src |-> r.src, read |-> r.read,
                had |-> cachedPort,
                hadHost |-> cachedHost,
                age |-> now - cacheTime,
                seen |-> hostSeen,
                afterClear |-> cleared.host,
                dropped |-> cleared.wasHost]
    /\ hostSeen' = IF r.kind = "return" /\ hostSeen.host = NoHost
                   THEN [host |-> r.value, at |-> now] ELSE hostSeen
    /\ cleared' = [cleared EXCEPT !.host = FALSE, !.wasHost = NoHost]
    /\ UNCHANGED <<cachedPort, cacheTime, now, env, file, prev>>
    /\ UNCHANGED <<allocVars, fetchVars, handlerVars>>

ClearPortCache ==
    /\ cachedPort' = clearPortCache(cachedPort, cachedHost).cachedPort
    /\ cachedHost' = clearPortCache(cachedPort, cachedHost).cachedHost
    /\ last' = [op |-> "clearPortCache"]
    /\ prev' = NoPrev
    /\ hostSeen' = NoSeen
    /\ cleared' = [port |-> TRUE, host |-> TRUE, wasPort |-> cachedPort,
                   wasHost |-> cachedHost]
    /\ UNCHANGED <<cacheTime, now, env, file>>
    /\ UNCHANGED <<allocVars, fetchVars, handlerVars>>

\* Date.now() advances.
Tick ==
    \E d \in TickSteps :
        /\ TicksUsed(now + d) <= MaxTicks
        /\ now' = now + d
        /\ last' = NoCall
        /\ UNCHANGED <<cachedPort, cachedHost, cacheTime, env, file, prev,
                       hostSeen, cleared>>
        /\ UNCHANGED <<allocVars, fetchVars, handlerVars>>

\* The environment variable is set, changed or unset.
SetEnv ==
    \E e \in EnvValues :
        /\ e # env
        /\ env' = e
        /\ last' = NoCall
        /\ UNCHANGED <<cachedPort, cachedHost, cacheTime, now, file, prev,
                       hostSeen, cleared>>
        /\ UNCHANGED <<allocVars, fetchVars, handlerVars>>

\* The states of the settings file: readable with a port and a host, or
\* unreadable (missing or corrupt), which holds no settings.
Unreadable == [ok |-> FALSE, port |-> <<>>, host |-> NoHost]
FilesWith(ports, hosts) ==
    {Unreadable} \cup
    {[ok |-> TRUE, port |-> p, host |-> h] : p \in ports, h \in hosts}
SettingsFiles == FilesWith(FilePorts, FileHosts)

\* The settings file is rewritten, removed or corrupted by another process,
\* to one of the states in files.
WriteSettingsTo(files) ==
    \E f \in files :
        /\ f # file
        /\ file' = f
        /\ last' = NoCall
        /\ prev' = NoPrev
        /\ UNCHANGED <<cachedPort, cachedHost, cacheTime, now, env,
                       hostSeen, cleared>>
        /\ UNCHANGED <<allocVars, fetchVars, handlerVars>>

WriteSettings == WriteSettingsTo(SettingsFiles)

InitCache ==
    /\ cachedPort = NULL
    /\ cachedHost = NoHost
    /\ cacheTime = 0
    /\ now = 0
    /\ env \in EnvValues
    /\ file \in SettingsFiles
    /\ last = NoCall
    /\ prev = NoPrev
    /\ hostSeen = NoSeen
    /\ cleared = NotCleared

IdleCache ==
    /\ cachedPort = NULL
    /\ cachedHost = NoHost
    /\ cacheTime = 0
    /\ now = 0
    /\ env = Unset
    /\ file = [ok |-> TRUE, port |-> <<"7">>, host |-> Str("127.0.0.1")]
    /\ last = NoCall
    /\ prev = NoPrev
    /\ hostSeen = NoSeen
    /\ cleared = NotCleared
IdleAlloc == occupied = {} /\ worker = <<>>
IdleFetch == call = <<>>
IdleHandlers == ensure = <<>> /\ hook = <<>> /\ fmt = <<>>

Init == InitCache /\ IdleAlloc /\ IdleFetch /\ IdleHandlers

Next ==
    \/ GetWorkerPort
    \/ GetWorkerHost
    \/ ClearPortCache
    \/ Tick
    \/ SetEnv
    \/ WriteSettings

Spec == Init /\ [][Next]_vars

\* ------------------------------------------------------------------------
\* Port allocator
\* ------------------------------------------------------------------------

Workers == 1..NumWorkers
BasePorts == {7, 8}
\* The host handed to findAvailablePort: its default value.
AllocHosts == {Str("127.0.0.1")}
AttemptCounts == 0..MaxAttempts
\* The default value of the parameter maxAttempts.
DefaultMaxAttempts == 10
CandidatePorts == 7..(8 + MaxAttempts - 1)

\* basePort, the ports probed and the result are numbers as the code
\* holds them: the base port handed over by getAvailableWorkerPort is NaN
\* when the settings port is not numeric.
IdleWorker == [pc |-> "idle", basePort |-> Num(0), host |-> NoHost,
               maxAttempts |-> 0, i |-> 0, probes |-> <<>>,
               result |-> Num(0), error |-> "none"]

\* Something is bound to host:port. Nothing is bound to a port that is
\* NaN.
Bound(host, port) == port.t = "num" /\ <<host, port.v>> \in occupied

\* isPortAvailableAtTcpLevel(port, host), when it answers: true when
\* nothing is bound to host:port.
isPortAvailableAtTcpLevel(port, host) == ~Bound(host, port)

\* The port findAvailablePort returns once every attempt found its port
\* occupied.
allOccupiedResult(basePort, maxAttempts) == basePort

\* The port tried by iteration i.
portToTry_Doubling(basePort, i) == Plus(basePort, Num(2 * i))

portToTry(basePort, i) == Plus(basePort, Num(i))

\* How an awaited promise of findAvailablePort settles: the dynamic import
\* of the module that holds the probe, and each probe, fulfil or reject.
\* findAvailablePort has no try/catch, so a rejection of either rejects the
\* call.
Settlements == {"fulfils", "rejects"}

\* The call rejected: pc "rejected", with the await that rejected in error
\* ("import" or "probe"). A call that rejected has no result, and its
\* locals are gone with it.
rejectWith(error) == [IdleWorker EXCEPT !.pc = "rejected", !.error = error]

\* findAvailablePort(b, h, m) has been called and is suspended at the
\* import, its first await: nothing is probed before the import settles.
pendingImport(b, h, m) ==
    [IdleWorker EXCEPT !.pc = "import", !.basePort = b, !.host = h,
                       !.maxAttempts = m]

\* The import of a suspended call settles: the loop is entered, or left at
\* once when maxAttempts is 0, or the call rejects.
enterLoop(me, import) ==
    IF import = "rejects" THEN rejectWith("import")
    ELSE IF 0 < me.maxAttempts THEN [me EXCEPT !.pc = "loop"]
    ELSE [me EXCEPT !.pc = "returned",
                    !.result = allOccupiedResult(me.basePort,
                                                 me.maxAttempts)]

\* findAvailablePort(basePort, host, maxAttempts) is called and runs up to
\* its first await, the import.
FindAvailablePort(w) ==
    \E b \in BasePorts, h \in AllocHosts, m \in AttemptCounts :
        /\ worker[w].pc = "idle"
        /\ worker' = [worker EXCEPT ![w] = pendingImport(Num(b), h, m)]
        /\ UNCHANGED occupied
        /\ UNCHANGED <<cacheVars, fetchVars, handlerVars>>

\* A later turn of the event loop: the import settles and the call runs up
\* to its first probe, to its return, or rejects with the import.
ImportSettles(w) ==
    \E import \in Settlements :
        /\ worker[w].pc = "import"
        /\ worker' = [worker EXCEPT ![w] = enterLoop(worker[w], import)]
        /\ UNCHANGED occupied
        /\ UNCHANGED <<cacheVars, fetchVars, handlerVars>>

\* One iteration of the loop: the probe of portToTry settles and the code
\* runs up to the next await, to its return, or rejects with the probe.
Probe(w) ==
    \E settles \in Settlements :
        LET me == worker[w]
            port == portToTry(me.basePort, me.i)
            free == isPortAvailableAtTcpLevel(port, me.host)
            log == Append(me.probes, [port |-> port, free |-> free])
        IN
        /\ me.pc = "loop"
        /\ worker' = [worker EXCEPT ![w] =
              IF settles = "rejects" THEN rejectWith("probe")
              ELSE IF free
              THEN [me EXCEPT !.pc = "returned", !.probes = log,
                              !.result = port]
              ELSE IF me.i + 1 < me.maxAttempts
              THEN [me EXCEPT !.i = me.i + 1, !.probes = log]
              ELSE [me EXCEPT !.pc = "returned", !.i = me.i + 1,
                              !.probes = log,
                              !.result = allOccupiedResult(me.basePort,
                                                           me.maxAttempts)]]
        /\ UNCHANGED occupied
        /\ UNCHANGED <<cacheVars, fetchVars, handlerVars>>

\* The worker binds the port it was given; the bind fails when the port has
\* been taken meanwhile, and when the port is no number.
Bind(w) ==
    LET me == worker[w] IN
    /\ me.pc = "returned"
    /\ IF me.result.t # "num" \/ Bound(me.host, me.result)
       THEN /\ worker' = [worker EXCEPT ![w].pc = "bindFailed"]
            /\ UNCHANGED occupied
       ELSE /\ worker' = [worker EXCEPT ![w].pc = "listening"]
            /\ occupied' = occupied \cup {<<me.host, me.result.v>>}
    /\ UNCHANGED <<cacheVars, fetchVars, handlerVars>>

InitAlloc ==
    /\ occupied \in SUBSET (AllocHosts \X CandidatePorts)
    /\ worker = [w \in Workers |-> IdleWorker]

NextAlloc ==
    \E w \in Workers :
        \/ FindAvailablePort(w)
        \/ ImportSettles(w)
        \/ Probe(w)
        \/ Bind(w)

AllocInit == InitAlloc /\ IdleCache /\ IdleFetch /\ IdleHandlers

SpecAlloc == AllocInit /\ [][NextAlloc]_vars

\* getAvailableWorkerPort(): the base port and the host are resolved one
\* after the other with no suspension point in between, and
\* findAvailablePort(basePort, host) is called with the default maxAttempts
\* and suspends at its import; when a getter throws the call rejects,
\* findAvailablePort is not called and the record of w shows no call of
\* it. The base port is the value getWorkerPort returned, NaN included.
\* worker[w] holds the call w made last. A caller may call again while an
\* earlier call is suspended: that call goes on unobserved, and it writes
\* nothing that the cache or another call reads.
GetAvailableWorkerPort(w) ==
    LET rp == getWorkerPort(env, file, cachedPort, cacheTime, now)
        rh == getWorkerHost(file, cachedHost)
        threw == rp.kind = "throw" \/ rh.kind = "throw"
    IN
    /\ worker' = [worker EXCEPT ![w] =
          IF threw THEN IdleWorker
          ELSE pendingImport(rp.value, rh.value, DefaultMaxAttempts)]
    /\ cachedPort' = rp.cachedPort
    /\ cacheTime' = rp.cacheTime
    /\ cachedHost' = IF rp.kind = "throw" THEN cachedHost ELSE rh.cachedHost
    /\ last' = IF rp.kind = "throw" \/ rh.kind = "throw"
               THEN [op |-> "getAvailableWorkerPort", kind |-> "throw"]
               ELSE [op |-> "getAvailableWorkerPort", kind |-> "return",
                     port |-> rp.value, portSrc |-> rp.src,
                     portAge |-> now - cacheTime,
                     host |-> rh.value, hostSrc |-> rh.src,
                     seen |-> hostSeen]
    /\ prev' = nextPrev(rp, now)
    /\ hostSeen' = IF rp.kind = "return" /\ rh.kind = "return"
                      /\ hostSeen.host = NoHost
                   THEN [host |-> rh.value, at |-> now] ELSE hostSeen
    /\ cleared' = [port |-> IF rp.src = "env" THEN cleared.port ELSE FALSE,
                   wasPort |-> IF rp.src = "env" THEN cleared.wasPort
                               ELSE NULL,
                   host |-> IF rp.kind = "throw" THEN cleared.host ELSE FALSE,
                   wasHost |-> IF rp.kind = "throw" THEN cleared.wasHost
                               ELSE NoHost]
    /\ UNCHANGED <<now, env, file, occupied>>
    /\ UNCHANGED <<fetchVars, handlerVars>>

\* One process that resolves its endpoint again and again while the clock
\* advances and the settings change.
EndpointWorker == 1
EndpointOccupied == {<<Str("127.0.0.1"), 7>>}
\* The settings files of this process: a numeric port or one that parses
\* to NaN, with either host.
EndpointFilePorts == {<<"7">>, <<"x">>}
EndpointFiles == FilesWith(EndpointFilePorts, FileHosts)

InitEndpoint ==
    /\ occupied = EndpointOccupied
    /\ worker = [w \in Workers |-> IdleWorker]

EndpointInit ==
    /\ InitCache /\ env \in {Unset, EnvText(<<"9">>)}
    /\ file \in EndpointFiles
    /\ InitEndpoint /\ IdleFetch /\ IdleHandlers

WriteEndpointSettings == WriteSettingsTo(EndpointFiles)

NextEndpoint ==
    \/ GetAvailableWorkerPort(EndpointWorker)
    \/ ImportSettles(EndpointWorker)
    \/ Probe(EndpointWorker)
    \/ GetWorkerPort
    \/ GetWorkerHost
    \/ ClearPortCache
    \/ Tick
    \/ WriteEndpointSettings

SpecEndpoint == EndpointInit /\ [][NextEndpoint]_vars

\* ------------------------------------------------------------------------
\* fetchWithTimeout
\* ------------------------------------------------------------------------

Calls == 1..NumCalls
TimeoutChoices == {0, 1}
Statuses == {200, 500}

\* Settled values of the promise.
Pending == [state |-> "pending", kind |-> "none", arg |-> 0]
Response(status) == [state |-> "fulfilled", kind |-> "response", arg |-> status]
NetworkError == [state |-> "rejected", kind |-> "networkError", arg |-> 0]
\* new Error(`Request timed out after ${timeoutMs}ms`)
TimeoutError(timeoutMs) ==
    [state |-> "rejected", kind |-> "timeout", arg |-> timeoutMs]

\* resolve(v) and reject(e) of a promise: they take effect on a pending
\* promise only.
resolve(p, v) == IF p.state = "pending" THEN v ELSE p
reject(p, e) == IF p.state = "pending" THEN e ELSE p

\* clearTimeout(timeoutId): cancels a timer that has not fired.
clearTimeout(timer) == IF timer = "pending" THEN "cleared" ELSE timer

\* The three callbacks of fetchWithTimeout, as the promise and timer they
\* leave.
onTimeout_Resolves(c) ==
    [promise |-> resolve(c.promise, Response(200)), timer |-> "fired"]

onTimeout(c) ==
    [promise |-> reject(c.promise, TimeoutError(c.timeoutMs)),
     timer |-> "fired"]

onResponse_NoClear(c, status) ==
    [promise |-> resolve(c.promise, Response(status)), timer |-> c.timer]

onResponse(c, status) ==
    [promise |-> resolve(c.promise, Response(status)),
     timer |-> clearTimeout(c.timer)]

onError(c) ==
    [promise |-> reject(c.promise, NetworkError),
     timer |-> clearTimeout(c.timer)]

IdleCall == [pc |-> "idle", timeoutMs |-> 0, deadline |-> 0, silent |-> FALSE,
             promise |-> Pending, timer |-> "none", net |-> "none",
             first |-> "none", transitions |-> 0]

\* The number of times the promise left the pending state, and the event
\* that made it leave first.
noteSettle(c, promise, event) ==
    IF c.promise.state = "pending" /\ promise.state # "pending"
    THEN [first |-> event, transitions |-> c.transitions + 1]
    ELSE IF c.promise # promise
    THEN [first |-> c.first, transitions |-> c.transitions + 1]
    ELSE [first |-> c.first, transitions |-> c.transitions]

\* fetchWithTimeout(url, init, timeoutMs) is called: the timer is armed and
\* the request is sent. The endpoint either will answer or fail at some
\* point, or never responds.
FetchWithTimeout(c) ==
    \E ms \in TimeoutChoices, silent \in BOOLEAN :
        /\ call[c].pc = "idle"
        /\ now + ms <= MaxFetchNow
        /\ call' = [call EXCEPT ![c] =
              [IdleCall EXCEPT !.pc = "started", !.timeoutMs = ms,
                               !.deadline = now + ms, !.silent = silent,
                               !.timer = "pending", !.net = "inflight"]]
        /\ UNCHANGED <<cacheVars, allocVars, handlerVars>>

\* The timer expires and its callback runs.
TimerFires(c) ==
    LET me == call[c]
        r == onTimeout(me)
        g == noteSettle(me, r.promise, "timer")
    IN
    /\ me.timer = "pending"
    /\ me.deadline <= now
    /\ call' = [call EXCEPT ![c] =
          [me EXCEPT !.promise = r.promise, !.timer = r.timer,
                     !.first = g.first, !.transitions = g.transitions]]
    /\ UNCHANGED <<cacheVars, allocVars, handlerVars>>

\* The network call fulfils with a response, of any status.
FetchFulfils(c) ==
    \E status \in Statuses :
        LET me == call[c]
            r == onResponse(me, status)
            g == noteSettle(me, r.promise, "response")
        IN
        /\ me.net = "inflight"
        /\ ~me.silent
        /\ call' = [call EXCEPT ![c] =
              [me EXCEPT !.promise = r.promise, !.timer = r.timer,
                         !.net = "responded",
                         !.first = g.first, !.transitions = g.transitions]]
        /\ UNCHANGED <<cacheVars, allocVars, handlerVars>>

\* The network call rejects with a network error.
FetchRejects(c) ==
    LET me == call[c]
        r == onError(me)
        g == noteSettle(me, r.promise, "error")
    IN
    /\ me.net = "inflight"
    /\ ~me.silent
    /\ call' = [call EXCEPT ![c] =
          [me EXCEPT !.promise = r.promise, !.timer = r.timer,
                     !.net = "failed",
                     !.first = g.first, !.transitions = g.transitions]]
    /\ UNCHANGED <<cacheVars, allocVars, handlerVars>>

\* Time passes.
FetchTick ==
    /\ now < MaxFetchNow
    /\ now' = now + 1
    /\ UNCHANGED <<cachedPort, cachedHost, cacheTime, env, file, last, prev,
                   hostSeen, cleared>>
    /\ UNCHANGED <<allocVars, fetchVars, handlerVars>>

InitFetch == call = [c \in Calls |-> IdleCall]

NextFetch ==
    \/ FetchTick
    \/ \E c \in Calls :
          \/ FetchWithTimeout(c)
          \/ TimerFires(c)
          \/ FetchFulfils(c)
          \/ FetchRejects(c)

FetchInit == InitFetch /\ IdleCache /\ IdleAlloc /\ IdleHandlers

SpecFetch == FetchInit /\ [][NextFetch]_vars

\* The event loop runs the callback of every timer that is due, and time
\* does not stop.
SpecFetchFair ==
    /\ FetchInit
    /\ [][NextFetch]_vars
    /\ WF_vars(FetchTick)
    /\ \A c \in Calls : WF_vars(TimerFires(c))

\* ------------------------------------------------------------------------
\* Liveness/version reconciler: isWorkerHealthy, checkWorkerVersion,
\* ensureWorkerRunning
\* ------------------------------------------------------------------------

\* Response.ok
ok(status) == 200 <= status /\ status <= 299

HealthStatuses == {200, 503}
VersionStatuses == {200, 500}
Versions == {"9.0.0", "9.0.1"}

\* What a request sent with fetchKeepAlive or fetch settles with: a
\* response (its status, whether its body parses as JSON, the version it
\* reports) or a network error.
HealthOutcomes ==
    [kind : {"response"}, status : HealthStatuses, json : {TRUE},
     version : {"9.0.0"}]
        \cup {[kind |-> "error", status |-> 0, json |-> FALSE,
               version |-> "9.0.0"]}
VersionOutcomes ==
    [kind : {"response"}, status : VersionStatuses, json : BOOLEAN,
     version : Versions]
        \cup {[kind |-> "error", status |-> 0, json |-> FALSE,
               version |-> "9.0.0"]}

\* package.json under MARKETPLACE_ROOT: readable with a version, or not.
PackageStates ==
    [readable : {TRUE}, version : Versions]
        \cup {[readable |-> FALSE, version |-> "9.0.0"]}

IdleEnsure == [pc |-> "idle", healthy |-> "none", versionCheck |-> "none",
               healthProbes |-> 0, versionRequests |-> 0, silent |-> FALSE,
               pluginVersion |-> "none", result |-> "none"]

\* isWorkerHealthy(), once its request has settled with o: response.ok, or
\* the rejection of the request passed on to the caller.
isWorkerHealthy(o) ==
    IF o.kind = "error" THEN "threw"
    ELSE IF ok(o.status) THEN "true" ELSE "false"

\* getWorkerVersion() and the comparison of checkWorkerVersion(), once the
\* version request has settled with o.
checkWorkerVersion(pluginVersion, o) ==
    IF o.kind = "error" THEN "threw"
    ELSE IF ~ok(o.status) THEN "threw"
    ELSE IF ~o.json THEN "threw"
    ELSE IF pluginVersion # o.version THEN "mismatch" ELSE "match"

\* ensureWorkerRunning: the liveness attempt did not succeed (isWorkerHealthy
\* returned false or threw into the catch block).
onHealthFailure_Rethrow(e, healthy) ==
    [e EXCEPT !.pc = "done", !.healthy = healthy,
              !.result = IF healthy = "threw" THEN "threw" ELSE "false"]

onHealthFailure(e, healthy) ==
    [e EXCEPT !.pc = "done", !.healthy = healthy, !.result = "false"]

\* ensureWorkerRunning: checkWorkerVersion returned or threw after a
\* successful liveness attempt. A throw lands in the same catch block as a
\* failed liveness attempt.
onVersionChecked(e, versionCheck) ==
    [e EXCEPT !.pc = "done", !.versionCheck = versionCheck,
              !.result = IF versionCheck = "threw" THEN "false" ELSE "true"]

\* ensureWorkerRunning() is called: isWorkerHealthy resolves the port and
\* sends GET /api/health.
EnsureWorkerRunning ==
    LET rp == getWorkerPort(env, file, cachedPort, cacheTime, now) IN
    /\ ensure.pc \in {"idle", "done"}
    /\ cachedPort' = rp.cachedPort
    /\ cacheTime' = rp.cacheTime
    /\ \E silent \in BOOLEAN :
          ensure' = IF rp.kind = "throw"
                    THEN onHealthFailure(IdleEnsure, "threw")
                    ELSE [IdleEnsure EXCEPT !.pc = "awaitHealth",
                                            !.healthProbes = 1,
                                            !.silent = silent]
    /\ UNCHANGED <<cachedHost, now, env, file, last, prev, hostSeen, cleared>>
    /\ UNCHANGED <<allocVars, fetchVars, hook, fmt>>

\* The health request settles. When the worker is healthy the version check
\* starts: package.json is read, the port is resolved again and
\* GET /api/version is sent.
HealthSettles ==
    \E o \in HealthOutcomes, pkg \in PackageStates, silent \in BOOLEAN :
        LET healthy == isWorkerHealthy(o)
            rp == getWorkerPort(env, file, cachedPort, cacheTime, now)
        IN
        /\ ensure.pc = "awaitHealth"
        /\ ~ensure.silent
        /\ IF healthy # "true"
           THEN /\ ensure' = onHealthFailure(ensure, healthy)
                /\ UNCHANGED <<cachedPort, cacheTime>>
           ELSE IF ~pkg.readable
           THEN /\ ensure' = onVersionChecked(
                                 [ensure EXCEPT !.healthy = healthy], "threw")
                /\ UNCHANGED <<cachedPort, cacheTime>>
           ELSE /\ cachedPort' = rp.cachedPort
                /\ cacheTime' = rp.cacheTime
                /\ ensure' =
                      IF rp.kind = "throw"
                      THEN onVersionChecked(
                               [ensure EXCEPT !.healthy = healthy,
                                              !.pluginVersion = pkg.version],
                               "threw")
                      ELSE [ensure EXCEPT !.pc = "awaitVersion",
                                          !.healthy = healthy,
                                          !.pluginVersion = pkg.version,
                                          !.versionRequests = 1,
                                          !.silent = silent]
        /\ UNCHANGED <<cachedHost, now, env, file, last, prev, hostSeen,
                       cleared>>
        /\ UNCHANGED <<allocVars, fetchVars, hook, fmt>>

\* The version request settles and ensureWorkerRunning finishes.
VersionSettles ==
    \E o \in VersionOutcomes :
        /\ ensure.pc = "awaitVersion"
        /\ ~ensure.silent
        /\ ensure' = onVersionChecked(
                         ensure, checkWorkerVersion(ensure.pluginVersion, o))
        /\ UNCHANGED <<cacheVars, allocVars, fetchVars, hook, fmt>>

InitEnsure == ensure = IdleEnsure /\ hook = <<>> /\ fmt = <<>>

EnsureInit == InitCache /\ IdleAlloc /\ IdleFetch /\ InitEnsure

NextEnsure ==
    \/ EnsureWorkerRunning
    \/ HealthSettles
    \/ VersionSettles

SpecEnsure == EnsureInit /\ [][NextEnsure]_vars

\* A request that the worker answers, or that fails, does settle.
SpecEnsureFair ==
    /\ EnsureInit
    /\ [][NextEnsure]_vars
    /\ WF_vars(HealthSettles)
    /\ WF_vars(VersionSettles)

\* ------------------------------------------------------------------------
\* Lifecycle hook handlers: handleSessionStart, handleUserPromptSubmit,
\* handlePostToolUse, handleStop, handleSessionEnd
\* ------------------------------------------------------------------------

HookKinds == {"session-begin", "prompt-submit", "tool-observation", "stop",
              "session-end"}
HookStatuses == {200, 500}
MaxHooks == 3

HookOutcomes ==
    [kind : {"response"}, status : HookStatuses, json : BOOLEAN]
        \cup {[kind |-> "error", status |-> 0, json |-> FALSE]}
NoResponse == [kind |-> "none", status |-> 0, json |-> FALSE]

\* What console.log and console.error are given.
NoOutput == [written |-> FALSE, continue |-> FALSE, suppressOutput |-> FALSE]
Output(continue, suppressOutput) ==
    [written |-> TRUE, continue |-> continue, suppressOutput |-> suppressOutput]
NoDiagnostic == [written |-> FALSE, error |-> "none", status |-> 0,
                 exitCode |-> 0]
\* The message is `error`, followed by `status` for a response that is
\* not ok.
Diagnostic(error, status) ==
    [written |-> TRUE, error |-> error, status |-> status, exitCode |-> 2]

IdleHook == [kind |-> "none", pc |-> "idle", failedAt |-> "none",
             port |-> NULL, requests |-> 0, inflight |-> 0, silent |-> FALSE,
             response |-> NoResponse, exit |-> 0 - 1, stdout |-> NoOutput,
             stderr |-> NoDiagnostic, outcomes |-> 0,
             seq |-> 0, wire |-> {}, received |-> <<>>]

\* getSessionId(): returns the session id or throws.
getSessionId(sessionOk) == IF sessionOk THEN "return" ELSE "throw"

\* readJsonFromStdin(): resolves with the parsed input (a value, or null
\* or undefined) or rejects.
StdinInputs == {"value", "nullish", "throw"}

readJsonFromStdin(input) == IF input = "throw" THEN "throw" ELSE "return"

\* Building the request body: `input.prompt || input` of
\* handleUserPromptSubmit throws a TypeError on null and undefined;
\* handlePostToolUse passes the input on as it is.
bodyThrows(kind, input) == kind = "prompt-submit" /\ input = "nullish"

\* The handlers that read their input from stdin before the request.
usesStdin(kind) == kind \in {"prompt-submit", "tool-observation"}

\* The handlers that test response.ok.
checksStatus(kind) == kind # "session-begin"

\* The text of the Error thrown on a response that is not ok.
failureText(kind) ==
    CASE kind = "prompt-submit" -> "Failed to save prompt"
      [] kind = "tool-observation" -> "Failed to save observation"
      [] kind = "stop" -> "Failed to prepare session"
      [] kind = "session-end" -> "Failed to compress session"
      [] OTHER -> "none"

\* The Error thrown on a response that is not ok: its text ends with the
\* response's status.
statusError_NoStatus(kind, status) == Diagnostic(failureText(kind), 0)

statusError(kind, status) == Diagnostic(failureText(kind), status)

\* The return statement of the try block: the exit code and the body
\* written to the output stream.
successOutcome_AlwaysZero(kind) ==
    CASE kind = "session-begin" ->
            [exit |-> 0, stdout |-> Output(TRUE, TRUE)]
      [] kind \in {"prompt-submit", "tool-observation"} ->
            [exit |-> 0, stdout |-> Output(TRUE, FALSE)]
      [] kind \in {"stop", "session-end"} ->
            [exit |-> 0, stdout |-> Output(FALSE, TRUE)]

successOutcome(kind) ==
    CASE kind = "session-begin" ->
            [exit |-> 0, stdout |-> Output(TRUE, TRUE)]
      [] kind \in {"prompt-submit", "tool-observation"} ->
            [exit |-> 3, stdout |-> Output(TRUE, FALSE)]
      [] kind \in {"stop", "session-end"} ->
            [exit |-> 0, stdout |-> Output(FALSE, TRUE)]

\* The catch block: the error's message goes to the diagnostic stream and
\* the handler returns 2.
catchError(h, at, diagnostic) ==
    [h EXCEPT !.pc = "exited", !.failedAt = at, !.inflight = 0,
              !.exit = 2, !.stderr = diagnostic,
              !.outcomes = h.outcomes + 1]

\* The port a handler sends its request to. handleSessionStart parses
\* process.env.WORKER_PORT || '37777' with no radix; the others call
\* getWorkerPort() in their own process, whose cache is still empty.
DefaultPortText == <<"3", "7", "7", "7", "7">>

\* Values of process.env.WORKER_PORT.
WorkerPortTexts == {<<>>, <<"9">>, <<"0", "x", "1", "F">>, <<"\t", "9">>,
                    <<"<U+2028>", "9">>}
WorkerPortValues == {Unset} \cup {EnvText(t) : t \in WorkerPortTexts}

resolvePort(kind, workerPortEnv) ==
    IF kind = "session-begin"
    THEN [kind |-> "return",
          value |-> ParseIntNoRadix(
                       IF workerPortEnv.set /\ workerPortEnv.text # <<>>
                       THEN workerPortEnv.text ELSE DefaultPortText),
          cachedPort |-> NULL, cacheTime |-> 0]
    ELSE LET r == getWorkerPort(env, file, NULL, 0, now) IN
         [kind |-> r.kind, value |-> r.value,
          cachedPort |-> r.cachedPort, cacheTime |-> r.cacheTime]

\* The port is resolved and the one request of the handler is sent: the
\* request of invocation h.seq is on the wire and the handler awaits it.
sendRequest_NoAwait(h, rp, silent) ==
    IF rp.kind = "throw"
    THEN catchError(h, "port", Diagnostic("settings", 0))
    ELSE [h EXCEPT !.pc = "exited", !.port = rp.value,
                   !.requests = h.requests + 1,
                   !.wire = h.wire \cup {h.seq},
                   !.exit = successOutcome(h.kind).exit,
                   !.stdout = successOutcome(h.kind).stdout,
                   !.outcomes = h.outcomes + 1]

sendRequest(h, rp, silent) ==
    IF rp.kind = "throw"
    THEN catchError(h, "port", Diagnostic("settings", 0))
    ELSE [h EXCEPT !.pc = "awaitResponse", !.port = rp.value,
                   !.requests = h.requests + 1, !.inflight = h.inflight + 1,
                   !.silent = silent, !.wire = h.wire \cup {h.seq}]

\* The code that follows the await of the request, once it settled with o.
\* A request the worker had not received when the connection failed is
\* lost with the connection.
onSettled(h, o) ==
    LET g == [h EXCEPT !.response = o, !.inflight = 0,
                       !.wire = h.wire \ {h.seq}] IN
    IF o.kind = "error"
    THEN catchError(g, "network", Diagnostic("network", 0))
    ELSE IF checksStatus(h.kind) /\ ~ok(o.status)
    THEN catchError(g, "status", statusError(h.kind, o.status))
    ELSE IF ~checksStatus(h.kind) /\ ~o.json
    THEN catchError(g, "body", Diagnostic("body", 0))
    ELSE [g EXCEPT !.pc = "exited",
                   !.exit = successOutcome(h.kind).exit,
                   !.stdout = successOutcome(h.kind).stdout,
                   !.outcomes = g.outcomes + 1]

\* The host starts a hook process: the handler runs up to its first await,
\* or to its end when getSessionId throws.
InvokeHook ==
    \E kind \in HookKinds, sessionOk \in BOOLEAN,
       workerPortEnv \in WorkerPortValues, silent \in BOOLEAN :
        LET h == [IdleHook EXCEPT !.kind = kind, !.seq = hook.seq + 1,
                                  !.wire = hook.wire,
                                  !.received = hook.received]
            rp == resolvePort(kind, workerPortEnv)
        IN
        /\ hook.pc \in {"idle", "exited"}
        /\ hook.seq < MaxHooks
        /\ IF getSessionId(sessionOk) = "throw"
           THEN /\ hook' = catchError(h, "sessionId",
                                      Diagnostic("sessionId", 0))
                /\ cachedPort' = NULL /\ cacheTime' = 0
           ELSE IF usesStdin(kind)
           THEN /\ hook' = [h EXCEPT !.pc = "awaitStdin"]
                /\ cachedPort' = NULL /\ cacheTime' = 0
           ELSE /\ hook' = sendRequest(h, rp, silent)
                /\ cachedPort' = rp.cachedPort /\ cacheTime' = rp.cacheTime
        /\ cachedHost' = NoHost
        /\ UNCHANGED <<now, env, file, last, prev, hostSeen, cleared>>
        /\ UNCHANGED <<allocVars, fetchVars, ensure, fmt>>

\* readJsonFromStdin settles; on success the port is resolved, the request
\* body is built and the request is sent.
StdinSettles ==
    \E input \in StdinInputs, silent \in BOOLEAN :
        LET rp == resolvePort(hook.kind, Unset) IN
        /\ hook.pc = "awaitStdin"
        /\ IF readJsonFromStdin(input) = "throw"
           THEN /\ hook' = catchError(hook, "stdin", Diagnostic("stdin", 0))
                /\ UNCHANGED <<cachedPort, cacheTime>>
           ELSE /\ hook' = IF rp.kind # "throw" /\ bodyThrows(hook.kind, input)
                           THEN catchError(hook, "request",
                                           Diagnostic("TypeError", 0))
                           ELSE sendRequest(hook, rp, silent)
                /\ cachedPort' = rp.cachedPort /\ cacheTime' = rp.cacheTime
        /\ UNCHANGED <<cachedHost, now, env, file, last, prev, hostSeen,
                       cleared>>
        /\ UNCHANGED <<allocVars, fetchVars, ensure, fmt>>

\* The worker reads a request that is on the wire.
WorkerReceives ==
    \E n \in hook.wire :
        /\ hook' = [hook EXCEPT !.wire = hook.wire \ {n},
                                !.received = Append(hook.received, n)]
        /\ UNCHANGED <<cacheVars, allocVars, fetchVars, ensure, fmt>>

\* The request settles and the handler runs to its return. The worker
\* answers only a request it has received.
ResponseSettles ==
    \E o \in HookOutcomes :
        /\ hook.pc = "awaitResponse"
        /\ ~hook.silent
        /\ o.kind = "response" => hook.seq \notin hook.wire
        /\ hook' = onSettled(hook, o)
        /\ UNCHANGED <<cacheVars, allocVars, fetchVars, ensure, fmt>>

InitHook == hook = IdleHook /\ ensure = <<>> /\ fmt = <<>>

HookInit == InitCache /\ IdleAlloc /\ IdleFetch /\ InitHook

NextHook ==
    \/ InvokeHook
    \/ StdinSettles
    \/ WorkerReceives
    \/ ResponseSettles

SpecHook == HookInit /\ [][NextHook]_vars

\* The event loop runs every callback whose promise has settled; a request
\* to an endpoint that never answers never settles.
SpecHookFair ==
    /\ HookInit /\ [][NextHook]_vars
    /\ WF_vars(StdinSettles)
    /\ WF_vars(WorkerReceives)
    /\ WF_vars(ResponseSettles)

\* ------------------------------------------------------------------------
\* formatNumberCompact (format.ts)
\* ------------------------------------------------------------------------

MaxNum == 1100

\* Arguments of formatNumberCompact: every integer up to MaxNum and values
\* around the powers of 1000 and the rounding points of toFixed(1).
BoundaryNums == {1150, 1250, 1500, 1949, 1950, 9999, 10000, 99949, 99950,
                 150000, 999949, 999950, 999999, 1000000, 1050000, 1500000,
                 2750000, 999949999, 999950000, 999999999, 1000000000,
                 1500000000, 2147483647}
FormatInputs == (0..MaxNum) \cup BoundaryNums

DigitChar(d) ==
    CASE d = 0 -> "0" [] d = 1 -> "1" [] d = 2 -> "2" [] d = 3 -> "3"
      [] d = 4 -> "4" [] d = 5 -> "5" [] d = 6 -> "6" [] d = 7 -> "7"
      [] d = 8 -> "8" [] d = 9 -> "9"

\* num.toString() of a non-negative integer.
RECURSIVE numToString(_)
numToString(n) ==
    IF n < 10 THEN <<DigitChar(n)>>
    ELSE numToString(n \div 10) \o <<DigitChar(n % 10)>>

suffixes == <<"", "K", "M", "B", "T">>

\* Math.floor(Math.log10(num) / 3) for num >= 1.
RECURSIVE FloorLog1000(_)
FloorLog1000(n) == IF n < 1000 THEN 0 ELSE 1 + FloorLog1000(n \div 1000)

\* Math.pow(1000, k).
RECURSIVE Pow1000(_)
Pow1000(k) == IF k = 0 THEN 1 ELSE 1000 * Pow1000(k - 1)

\* Math.floor(Math.log2(w)) for w >= 1.
RECURSIVE FloorLog2(_)
FloorLog2(w) == IF w < 2 THEN 0 ELSE 1 + FloorLog2(w \div 2)

\* 2^s modulo 20, for s >= 2.
PowerOfTwoMod20(s) ==
    CASE s % 4 = 0 -> 16 [] s % 4 = 1 -> 12 [] s % 4 = 2 -> 4 [] s % 4 = 3 -> 8

\* The double num / p lies halfway between two one-decimal values
\* (whole.tenth and the next): whether toFixed(1) takes the upper one.
\* x.25 and x.75 are doubles and go up; any other x.y5 is not a double, and
\* the double nearest to it is above it when the remainder of its 53-bit
\* significand's division by 20 exceeds 10.
halfwayRoundsUp(whole, tenth) ==
    IF tenth \in {2, 7} THEN TRUE
    ELSE ((2 * tenth + 1) * PowerOfTwoMod20(52 - FloorLog2(whole))) % 20 > 10

\* (num / p).toFixed(1) for p a power of 1000 with num >= p: the integer
\* part and the decimal of the result.
toFixed1(num, p) ==
    LET whole == num \div p
        unit == p \div 10
        tenth == (num % p) \div unit
        rest == (num % p) % unit
        up == \/ 2 * rest > unit
              \/ 2 * rest = unit /\ halfwayRoundsUp(whole, tenth)
        carry == up /\ tenth = 9
    IN [whole |-> IF carry THEN whole + 1 ELSE whole,
        tenth |-> IF carry THEN 0 ELSE IF up THEN tenth + 1 ELSE tenth]

\* The text of suffixes[suffixNum]: nothing for '', "undefined" past 'T'.
suffixText(suffixNum) ==
    IF suffixNum + 1 \notin DOMAIN suffixes THEN <<"undefined">>
    ELSE IF suffixes[suffixNum + 1] = "" THEN <<>>
    ELSE <<suffixes[suffixNum + 1]>>

\* formatNumberCompact(num) as a sequence of characters, the suffix being
\* one element.
formatNumberCompact(num) ==
    IF num < 1000 THEN numToString(num)
    ELSE LET suffixNum == FloorLog1000(num)
             shortValue == toFixed1(num, Pow1000(suffixNum))
         IN numToString(shortValue.whole) \o <<".">>
                \o <<DigitChar(shortValue.tenth)>> \o suffixText(suffixNum)

FormatNumberCompact ==
    /\ ~fmt.done
    /\ fmt' = [fmt EXCEPT !.out = formatNumberCompact(fmt.num),
                          !.done = TRUE]
    /\ UNCHANGED <<cacheVars, allocVars, fetchVars, ensure, hook>>

FormatInit ==
    /\ IdleCache /\ IdleAlloc /\ IdleFetch
    /\ ensure = <<>> /\ hook = <<>>
    /\ fmt \in [num : FormatInputs, out : {<<>>}, done : {FALSE}]

NextFormat == FormatNumberCompact

SpecFormat == FormatInit /\ [][NextFormat]_vars

\* ------------------------------------------------------------------------
\* Properties of the connection cache (checked under Spec)
\* ------------------------------------------------------------------------

\* A numeric override: the variable is set and all its characters are digits.
IsNumericText(s) == s # <<>> /\ \A i \in 1..Len(s) : s[i] \in Digits
EnvIsNumeric == env.set /\ IsNumericText(env.text)
EnvPort == Num(DigitsValue(env.text, 0))
NoOverride == ~env.set \/ ParseInt(env.text) = NaN

\* C1: when the environment variable supplies a numeric worker port,
\* getWorkerPort returns exactly that port, taken from the environment and
\* neither from the cache nor from the settings file, whatever the cache
\* state and the settings file.
C1_EnvOverrideWins ==
    (last.op = "getWorkerPort" /\ EnvIsNumeric)
        => /\ last.kind = "return"
           /\ last.value = EnvPort
           /\ last.src = "env"
           /\ last.read = 0

\* C1 witness: an override answered while a fresh cache entry and a readable
\* settings file both hold another port.
C1_Witness ==
    /\ last.op = "getWorkerPort" /\ EnvIsNumeric
    /\ cachedPort # NULL /\ cachedPort # EnvPort
    /\ (now - cacheTime) < CACHE_TTL
    /\ file.ok /\ ParseInt(file.port) # EnvPort

\* C2 as stated: two getWorkerPort calls without override, less than
\* CACHE_TTL apart, with no clearPortCache and no settings change between
\* them, read the settings file at most once in total; and a call made when
\* the cached entry's age has reached CACHE_TTL reads it exactly once.
C2_Original ==
    last.op = "getWorkerPort"
        => /\ last.pairReads <= 1
           /\ (last.src # "env" /\ last.had # NULL /\ last.age >= CACHE_TTL)
                 => last.read = 1

\* C2 amended: the bound of one read for the pair holds when the first of
\* the two calls returned a port (its settings read, if it made one, did
\* not fail); the call made at or past expiry reads exactly once.
C2_AtMostOneReadWithinTTL ==
    last.op = "getWorkerPort"
        => /\ last.firstKind = "return" => last.pairReads <= 1
           /\ (last.src # "env" /\ last.had # NULL /\ last.age >= CACHE_TTL)
                 => last.read = 1

\* C2 witness: the second call of such a pair is served from the entry the
\* first call loaded, so the pair read the file once.
C2_Witness ==
    /\ last.op = "getWorkerPort"
    /\ last.firstKind = "return"
    /\ last.pairReads = 1
    /\ last.src = "cache"
    /\ last.age > 0

\* C3: getWorkerPort never returns a cached port whose age is CACHE_TTL or
\* more; without override, an absent or expired entry is reloaded and the
\* port returned is the one the settings file holds now.
C3_ExpiredNeverServed ==
    last.op = "getWorkerPort"
        => /\ last.src = "cache"
                 => (last.had # NULL /\ last.age < CACHE_TTL
                       /\ last.value = last.had)
           /\ (last.src # "env" /\ (last.had = NULL \/ last.age >= CACHE_TTL))
                 => /\ last.read = 1
                    /\ last.kind = "return"
                          => (last.src = "file"
                                /\ last.value = ParseInt(file.port))

\* C3 witness: an entry aged exactly CACHE_TTL is replaced by a different
\* port read from the settings file.
C3_Witness ==
    /\ last.op = "getWorkerPort"
    /\ last.had # NULL /\ last.age = CACHE_TTL
    /\ last.kind = "return" /\ last.value # last.had

\* C4: the first getWorkerPort call without override and the first
\* getWorkerHost call after clearPortCache read the settings file and, when
\* the read succeeds, return the port and the host the file holds now.
C4_ClearForcesReload ==
    /\ (last.op = "getWorkerPort" /\ last.afterClear /\ last.src # "env")
          => /\ last.read = 1
             /\ last.kind = "return" => last.value = ParseInt(file.port)
    /\ (last.op = "getWorkerHost" /\ last.afterClear)
          => /\ last.read = 1
             /\ last.kind = "return" => last.value = file.host

\* C4 witness: clearPortCache dropped a host, and the next getWorkerHost
\* returns a different one, read from the file, while the port entry that
\* was dropped with it would still have been fresh.
C4_Witness ==
    /\ last.op = "getWorkerHost" /\ last.afterClear
    /\ last.dropped # NoHost
    /\ last.kind = "return" /\ last.value # last.dropped
    /\ (now - cacheTime) < CACHE_TTL

\* C5: once a host has been resolved, every later getWorkerHost call returns
\* that host without reading the settings file, until clearPortCache.
C5_HostCachedForLifetime ==
    (last.op = "getWorkerHost" /\ last.seen.host # NoHost)
        => /\ last.kind = "return"
           /\ last.value = last.seen.host
           /\ last.read = 0

\* C5 witness: the host is served CACHE_TTL or more after it was resolved,
\* after the port was reloaded in between and the file's host has changed.
C5_Witness ==
    /\ last.op = "getWorkerHost" /\ last.seen.host # NoHost
    /\ (now - last.seen.at) >= CACHE_TTL
    /\ cacheTime > last.seen.at
    /\ file.ok /\ file.host # last.value

\* C6 as stated: the endpoint never pairs a port freshly loaded from the
\* settings file with a host cached from an older read, nor a cached port
\* with a freshly loaded host, when the older field differs from the file.
C6_Original ==
    (last.op = "getAvailableWorkerPort" /\ last.kind = "return")
        => /\ (last.portSrc = "file" /\ last.hostSrc = "cache")
                 => last.host = file.host
           /\ (last.portSrc = "cache" /\ last.hostSrc = "file")
                 => last.port = ParseInt(file.port)

\* C6 amended: each field of the endpoint follows its own rule. The port is
\* the override, a cached port younger than CACHE_TTL, or the port freshly
\* loaded from the settings file; the host is the one resolved first since
\* the last clearPortCache, however old, or freshly loaded when there is
\* none.
C6_EndpointFieldRules ==
    (last.op = "getAvailableWorkerPort" /\ last.kind = "return")
        => /\ last.port # NULL
           /\ last.portSrc = "env" => last.port = envOverride(env)
           /\ last.portSrc = "cache" => last.portAge < CACHE_TTL
           /\ last.portSrc = "file" => last.port = ParseInt(file.port)
           /\ last.hostSrc = "cache" => last.host = last.seen.host
           /\ last.hostSrc = "file"
                 => (last.seen.host = NoHost /\ last.host = file.host)

\* C6 witness: an endpoint whose port was just loaded from the file and whose
\* host is an older cached one that the file no longer holds.
C6_Witness ==
    /\ last.op = "getAvailableWorkerPort" /\ last.kind = "return"
    /\ last.portSrc = "file" /\ last.hostSrc = "cache"
    /\ last.host # file.host

\* ------------------------------------------------------------------------
\* Properties of the port allocator (checked under SpecAlloc)
\* ------------------------------------------------------------------------

Returned(w) == worker[w].pc \in {"returned", "listening", "bindFailed"}
FoundFree(w) ==
    /\ worker[w].probes # <<>>
    /\ worker[w].probes[Len(worker[w].probes)].free
ListeningOn(h, p) ==
    \E w \in Workers : /\ worker[w].pc = "listening"
                       /\ worker[w].host = h
                       /\ worker[w].result = p

\* C7: findAvailablePort probes basePort, basePort+1, ... in increasing
\* order, one port per iteration and at most maxAttempts of them; every port
\* probed before the last was occupied; when a probe finds its port free the
\* function returns that port, the first free one, and has probed nothing
\* beyond it.
C7_FirstFreePortInOrder ==
    \A w \in Workers :
        LET me == worker[w]
            n == Len(me.probes)
        IN
        /\ n <= me.maxAttempts
        /\ \A k \in 1..n :
              /\ me.probes[k].port = Plus(me.basePort, Num(k - 1))
              /\ k < n => ~me.probes[k].free
              /\ ~me.probes[k].free => Bound(me.host, me.probes[k].port)
              /\ me.probes[k].free
                    => \/ ~Bound(me.host, me.probes[k].port)
                       \/ ListeningOn(me.host, me.probes[k].port)
        /\ FoundFree(w)
              => /\ Returned(w)
                 /\ me.result = me.probes[n].port
                 /\ \A k \in 1..n : ~Greater(me.probes[k].port, me.result)

\* C7 witness: a call with three candidates that found its base port
\* occupied and returned the next port, which was free, leaving the third
\* candidate unprobed.
C7_Witness ==
    \E w \in Workers :
        /\ worker[w].pc = "returned"
        /\ FoundFree(w)
        /\ worker[w].maxAttempts = 3
        /\ Len(worker[w].probes) = 2
        /\ worker[w].result = Plus(worker[w].basePort, Num(1))

\* C8: when every candidate port is occupied, findAvailablePort returns
\* basePort itself, after probing each of the maxAttempts candidates once;
\* findAvailablePort never raises, however its probes settle: no call has
\* rejected with a probe, and a call in its loop has attempts left.
C8_AllOccupiedReturnsBase ==
    \A w \in Workers :
        LET me == worker[w] IN
        /\ (Returned(w) /\ ~FoundFree(w))
              => /\ me.result = me.basePort
                 /\ Len(me.probes) = me.maxAttempts
                 /\ \A k \in 1..me.maxAttempts :
                       me.probes[k] =
                           [port |-> Plus(me.basePort, Num(k - 1)),
                            free |-> FALSE]
        /\ me.error # "probe"
        /\ me.pc = "loop" => me.i < me.maxAttempts

\* C9 as stated: two workers that run findAvailablePort with the same base
\* port and host and are each given a port that a probe found free are never
\* given the same port.
C9_NoCollision ==
    \A w1, w2 \in Workers :
        (/\ w1 # w2
         /\ Returned(w1) /\ Returned(w2)
         /\ FoundFree(w1) /\ FoundFree(w2)
         /\ worker[w1].basePort = worker[w2].basePort
         /\ worker[w1].host = worker[w2].host)
            => worker[w1].result # worker[w2].result

\* ------------------------------------------------------------------------
\* Properties of fetchWithTimeout (checked under SpecFetchFair)
\* ------------------------------------------------------------------------

\* The promise of call c reports the outcome of the event that settled
\* first, and has changed at most once.
FirstWins(c) ==
    LET me == call[c] IN
    /\ me.transitions <= 1
    /\ (me.transitions = 1) <=> (me.promise.state # "pending")
    /\ me.first = "none" <=> me.promise.state = "pending"
    /\ me.first = "response"
          => (me.promise.state = "fulfilled" /\ me.promise.kind = "response"
                /\ me.net = "responded")
    /\ me.first = "error"
          => (me.promise = NetworkError /\ me.net = "failed")
    /\ me.first = "timer"
          => (me.promise = TimeoutError(me.timeoutMs) /\ me.timer = "fired")
    /\ (me.first = "none" /\ me.pc = "started")
          => (me.timer = "pending" /\ me.net = "inflight")
    /\ me.silent => me.promise.state # "fulfilled"

C10_Safety == \A c \in Calls : FirstWins(c)

SilentStarted(c) == call[c].pc = "started" /\ call[c].silent
TimedOut(c) == call[c].promise = TimeoutError(call[c].timeoutMs)

\* C10: fetchWithTimeout settles once, with the outcome of whichever of the
\* network call and the timer settles first (response: fulfilled with it;
\* network error: rejected with it; timer: rejected with the timeout error),
\* a later event never changes that outcome, and a call to an endpoint that
\* never responds is eventually rejected with the timeout error and never
\* fulfilled.
C10_RaceFirstWins ==
    /\ []C10_Safety
    /\ \A c \in Calls : SilentStarted(c) ~> TimedOut(c)

\* C10 witness: the timer fired first and the response arrived afterwards;
\* the promise still reports the timeout.
C10_Witness ==
    \E c \in Calls :
        /\ call[c].first = "timer"
        /\ call[c].net = "responded"
        /\ TimedOut(c)

\* C11: once a fetchWithTimeout call has settled, by response, by network
\* error or by timeout, its timer is no longer pending: it has fired or it
\* has been cleared.
C11_NoTimerOutlivesCall ==
    \A c \in Calls :
        call[c].promise.state # "pending"
            => /\ call[c].timer \in {"fired", "cleared"}
               /\ call[c].promise.kind = "timeout" => call[c].timer = "fired"
               /\ call[c].promise.kind \in {"response", "networkError"}
                     => call[c].timer = "cleared"

\* C11 witness: one call settled by a response and another by a network
\* error, both before their timers were due, and both timers are cleared.
C11_Witness ==
    \E c, d \in Calls :
        /\ call[c].promise.kind = "response"
        /\ call[d].promise.kind = "networkError"
        /\ call[c].timer = "cleared" /\ call[d].timer = "cleared"
        /\ now < call[c].deadline /\ now < call[d].deadline

\* ------------------------------------------------------------------------
\* Properties of the liveness/version reconciler (checked under SpecEnsure)
\* ------------------------------------------------------------------------

\* C12 as stated: isWorkerHealthy answers true or false and never raises to
\* its caller, also when the probe fails with a network error.
C12_IsWorkerHealthyNeverRaises == ensure.healthy # "threw"

\* C13 as stated: whenever the liveness probe succeeds, ensureWorkerRunning
\* returns true, whatever the outcome of the version check.
C13_HealthyMeansTrue ==
    (ensure.pc = "done" /\ ensure.healthy = "true") => ensure.result = "true"

\* C14: ensureWorkerRunning sends at most one liveness probe per call, and
\* when the probe fails (network error or non-2xx response) it returns false
\* and does not raise.
C14_SingleProbeThenFalse ==
    /\ ensure.healthProbes <= 1
    /\ ensure.result # "threw"
    /\ (ensure.pc = "done" /\ ensure.healthy \in {"false", "threw"})
          => (ensure.result = "false" /\ ensure.versionRequests = 0)
    /\ ensure.pc = "done" => ensure.result \in {"true", "false"}

\* C14 witness: the one probe that was sent failed with a network error and
\* the call returned false.
C14_Witness ==
    /\ ensure.pc = "done"
    /\ ensure.healthProbes = 1
    /\ ensure.healthy = "threw"
    /\ ensure.result = "false"

\* C15 as stated: every call to ensureWorkerRunning eventually returns, also
\* when the worker accepts the connection and never answers.
C15_EventuallyReturns ==
    (ensure.pc \in {"awaitHealth", "awaitVersion"}) ~> (ensure.pc = "done")


\* ------------------------------------------------------------------------
\* Properties of the lifecycle hook handlers (checked under SpecHook)
\* ------------------------------------------------------------------------

hookExited == hook.pc = "exited"
answered2xx == hook.response.kind = "response" /\ ok(hook.response.status)
answeredNon2xx == hook.response.kind = "response" /\ ~ok(hook.response.status)

\* C16 as stated: a handler whose request was answered with a 2xx response
\* exits with 0 (session-begin, stop, session-end) or with 3
\* (prompt-submit, tool-observation); with 3 it has written a body with
\* continue: true to the output stream.
C16_Original ==
    (hookExited /\ answered2xx) =>
        /\ hook.kind \in {"session-begin", "stop", "session-end"}
              => hook.exit = 0
        /\ hook.kind \in {"prompt-submit", "tool-observation"}
              => hook.exit = 3
        /\ hook.exit = 3 => (hook.stdout.written /\ hook.stdout.continue)

\* C16 amended: the same, for session-begin provided the body of the 2xx
\* response parses as JSON; when it does not, session-begin exits with 2.
C16_SuccessExitCodes ==
    (hookExited /\ answered2xx) =>
        /\ (hook.kind = "session-begin" /\ ~hook.response.json)
              => hook.exit = 2
        /\ (hook.kind = "session-begin" /\ hook.response.json)
              => hook.exit = 0
        /\ hook.kind \in {"stop", "session-end"} => hook.exit = 0
        /\ hook.kind \in {"prompt-submit", "tool-observation"}
              => hook.exit = 3
        /\ hook.exit = 3 => (hook.stdout.written /\ hook.stdout.continue)

C16_Witness ==
    /\ hookExited /\ answered2xx
    /\ hook.kind = "prompt-submit"
    /\ hook.exit = 3 /\ hook.stdout.written /\ hook.stdout.continue

\* C17: a handler whose request was answered with a non-2xx response exits
\* with 2, never with 0 or 3.
C17_Non2xxIsFailure ==
    (hookExited /\ answeredNon2xx) => hook.exit = 2

\* C18: the session-end handler answered with a non-2xx response exits
\* with 2, its diagnostic message carries the status of that response, and
\* it has written nothing to the output stream.
C18_SessionEndNon2xx ==
    (hookExited /\ hook.kind = "session-end" /\ answeredNon2xx) =>
        /\ hook.exit = 2
        /\ hook.stderr.written
        /\ hook.stderr.error = "Failed to compress session"
        /\ hook.stderr.status = hook.response.status
        /\ ~hook.stdout.written

C18_Witness ==
    /\ hookExited /\ hook.kind = "session-end" /\ answeredNon2xx
    /\ hook.exit = 2 /\ hook.stderr.status = 500

\* hookFailed: the handler's catch block ran. failedAt records the
\* statement that threw: getSessionId, readJsonFromStdin, the port, the
\* request body, the fetch (connection refused or reset), the response.ok
\* test of the handlers that have one, or response.json() in the one
\* handler that reads the body. A body that is not JSON is no failure in a
\* handler that never reads it.
hookFailed == hook.failedAt # "none"

\* C19: a handler that has exited returned 0, 2 or 3 and produced one
\* outcome; if anything failed inside it (session id, settings, stdin,
\* connection, unparsable body where the body is parsed) or the response
\* had a non-2xx status, it returned 2 with the error on the diagnostic
\* stream.
C19_EveryFailureExitsTwo ==
    hookExited =>
        /\ hook.exit \in {0, 2, 3}
        /\ hook.outcomes = 1
        /\ (hookFailed \/ answeredNon2xx)
              => (hook.exit = 2 /\ hook.stderr.written)

\* C20: an invocation sends at most one request and has at most one in
\* flight; it has sent exactly one by the time it exits when the session
\* id, the input and the port resolved without error, and none if one of
\* these failed; a failed call ends the invocation with exit 2.
resolutionFailed == hook.failedAt \in {"sessionId", "stdin", "port"}

C20_OneRequestNoRetry ==
    /\ hook.requests <= 1
    /\ hook.inflight <= 1
    /\ hook.inflight = 1 => (hook.pc = "awaitResponse" /\ hook.requests = 1)
    /\ hook.pc = "awaitResponse" => hook.requests = 1
    /\ hookExited =>
          /\ resolutionFailed => hook.requests = 0
          /\ ~resolutionFailed => hook.requests = 1
          /\ hook.response.kind = "error" =>
                (hook.exit = 2 /\ hook.inflight = 0)

\* C21: a handler that has sent its request eventually exits, whether the
\* worker answers, refuses the connection or never answers.
C21_HandlerEventuallyExits ==
    (hook.pc = "awaitResponse") ~> (hook.pc = "exited")

\* C22: the port a handler has sent its request to is the port that
\* getWorkerPort resolves in that process from the environment and the
\* settings file, for every handler alike.
C22_PortFromConnectionCache ==
    hook.requests = 1 =>
        LET r == getWorkerPort(env, file, NULL, 0, now) IN
        r.kind = "return" /\ hook.port = r.value

\* C23: the worker receives the requests of hooks invoked one after
\* another in the order of their invocation, no request of an earlier
\* invocation is still on the wire, and a handler that sent a request has
\* not exited before the request settled with a response or a failure.
C23_RequestsInInvocationOrder ==
    /\ \A i, j \in DOMAIN hook.received :
          i < j => hook.received[i] < hook.received[j]
    /\ hook.wire \subseteq {hook.seq}
    /\ (hookExited /\ hook.requests = 1) =>
          /\ hook.response.kind # "none"
          /\ hook.wire = {}

C23_Witness ==
    /\ hookExited /\ hook.seq = 3 /\ hook.requests = 1
    /\ hook.response.kind = "response"
    /\ hook.received = <<1, 3>>

\* ------------------------------------------------------------------------
\* Frame properties of the connection cache (checked under Spec)
\* ------------------------------------------------------------------------

\* C24: a getWorkerPort call made under a numeric override reads no
\* settings file and leaves cachedPort, cachedHost and cacheTime as they
\* were; a call made under an override that is absent or not numeric has
\* the outcome and the effect on the cache of the same call with the
\* variable unset.
C24_OverrideFrame ==
    last.op = "getWorkerPort" =>
        IF EnvIsNumeric
        THEN /\ last.read = 0
             /\ cachedPort = last.had
             /\ cachedHost = last.hadHost
             /\ cacheTime = now - last.age
        ELSE LET r == getWorkerPort(Unset, file, last.had, now - last.age,
                                    now) IN
             /\ last.kind = r.kind
             /\ last.value = r.value
             /\ last.read = r.read
             /\ cachedPort = r.cachedPort
             /\ cacheTime = r.cacheTime
             /\ cachedHost = last.hadHost

\* C25: a getWorkerPort or getWorkerHost call whose settings read fails
\* throws to its caller and leaves cachedPort, cachedHost and cacheTime as
\* they were, holding no entry the next call could be served from; the
\* getWorkerPort call that follows a failed one reads the file again.
C25_FailedReadLeavesCache ==
    /\ (last.op \in {"getWorkerPort", "getWorkerHost"} /\ last.read = 1
            /\ ~file.ok)
          => /\ last.kind = "throw"
             /\ cachedPort = last.had
             /\ cachedHost = last.hadHost
             /\ cacheTime = now - last.age
    /\ (last.op = "getWorkerPort" /\ last.kind = "throw")
          => ~cacheValid(cachedPort, cacheTime, now)
    /\ (last.op = "getWorkerHost" /\ last.kind = "throw")
          => cachedHost = NoHost
    /\ (last.op = "getWorkerPort" /\ last.src # "env"
            /\ last.pairReads # 0 - 1 /\ last.firstKind = "throw")
          => last.read = 1

\* C25 witness: the read fails while an expired entry is cached, and the
\* entry is still there after the call.
C25_Witness ==
    /\ last.op = "getWorkerPort" /\ last.kind = "throw"
    /\ last.had # NULL /\ cachedPort = last.had
    /\ last.age >= CACHE_TTL /\ cacheTime = now - last.age
    /\ cachedHost # NoHost

\* ------------------------------------------------------------------------
\* Properties of formatNumberCompact (checked under SpecFormat)
\* ------------------------------------------------------------------------

\* C26: below 1000 the result is the decimal text of the number; from 1000
\* up it ends with the suffix of the largest power of 1000 not above the
\* number, its mantissa has an integer part in 1..999 and at most one
\* decimal, and a number that is a whole multiple of that power is written
\* without decimal (1000000 gives 1M).
C26_CompactFormat ==
    fmt.done =>
        LET n == fmt.num
            k == FloorLog1000(n)
            mantissa == SubSeq(fmt.out, 1, Len(fmt.out) - 1)
            intPart == DigitPrefix(mantissa)
            decimals == SubSeq(mantissa, Len(intPart) + 1, Len(mantissa))
        IN IF n < 1000 THEN fmt.out = numToString(n)
           ELSE /\ fmt.out # <<>>
                /\ fmt.out[Len(fmt.out)] = suffixes[k + 1]
                /\ intPart # <<>>
                /\ DigitsValue(intPart, 0) \in 1..999
                /\ \/ decimals = <<>>
                   \/ /\ Len(decimals) = 2 /\ decimals[1] = "."
                      /\ decimals[2] \in Digits
                /\ n % Pow1000(k) = 0 =>
                      mantissa = numToString(n \div Pow1000(k))

====
